---- MODULE Spec2Model ----
(***************************************************************************)
(* State-machine model of scripts/sync_icons.py: one run of the icon sync  *)
(* command, from argument parsing to process exit.                         *)
(*                                                                         *)
(* The command line is given by argTargets (the segments of the --targets  *)
(* value between commas) and argSuffix (the extension of the --source      *)
(* path).  What the file system, the image decoder and the external        *)
(* rasterizer answer is chosen by the environment when the code asks.      *)
(***************************************************************************)
EXTENDS Integers, Sequences, FiniteSets, TLC

VARIABLES
    argTargets,     \* value.split(",") of the --targets argument
    argSuffix,      \* source_path.suffix of the --source argument
    pc,             \* the statement the run is at
    targets,        \* args.targets, the parsed target list
    touched,        \* what has been done to the source path so far
    loader,         \* the branch load_source_image dispatched to
    image,          \* size of the decoded bitmap, [w |-> 0, h |-> 0] before
    convert_bin,    \* the local of load_svg_image: "unset", "none" or the path found
    tempDir,        \* the TemporaryDirectory of load_svg_image exists
    tempDirsMade,   \* number of temporary directories created so far
    rendered,       \* state of source-rendered.png inside it
    subprocRuns,    \* number of subprocess.run calls started
    source_is_svg,  \* the local of sync_targets
    cursor,         \* position of the loops of sync_targets
    written,        \* the list sync_targets builds and returns
    writeLog,       \* output paths in the order the files were stored
    fs,             \* content of every managed output path
    stdout,         \* lines printed to standard output
    stderr,         \* lines printed to standard error
    outcome,        \* how the process ended: "" while running
    exitCode        \* process exit status, -1 while running

vars == <<argTargets, argSuffix, pc, targets, touched, loader, image,
          convert_bin, tempDir, tempDirsMade, rendered, subprocRuns, source_is_svg, cursor, written, writeLog, fs,
          stdout, stderr, outcome, exitCode>>

(***************************************************************************)
(* Bounds and input alphabets                                              *)
(***************************************************************************)
MaxSegments == 3

\* segments a --targets value is made of, with and without padding
Segments == {"web", "desktop", " web ", "bogus", ""}

\* extensions of the source path
Suffixes == {".png", ".PNG", ".svg", ".Svg", ".jpg"}

\* pixel sizes a decodable PNG source may have
PngDims == {<<64, 64>>, <<512, 512>>, <<1024, 1024>>, <<512, 256>>, <<256, 512>>}

\* pixel sizes of the rasterizer's output: -resize 1024x1024 fits the picture
\* into a 1024 box keeping its aspect ratio
RenderedDims == {<<1024, 1024>>, <<1024, 512>>, <<512, 1024>>}

SeqsUpTo(S, n) == UNION {[1..k -> S] : k \in 1..n}

(***************************************************************************)
(* Static configuration                                                    *)
(***************************************************************************)
ICO_ENTRY_SIZES == <<16, 24, 32, 48, 64, 128, 256>>

MANAGED_TARGETS ==
    [t \in {"web", "desktop"} |->
        IF t = "web"
        THEN [png |-> << <<16, "web/public/favicon-16x16.png">>,
                         <<32, "web/public/favicon-32x32.png">>,
                         <<512, "web/public/videnoa_icon.png">> >>,
              ico |-> << "web/public/favicon.ico" >>,
              svg |-> << "web/public/favicon.svg" >>]
        ELSE [png |-> << <<512, "crates/desktop/icons/icon.png">>,
                         <<32, "crates/desktop/icons/icon-32.png">>,
                         <<64, "crates/desktop/icons/icon-64.png">>,
                         <<128, "crates/desktop/icons/icon-128.png">>,
                         <<256, "crates/desktop/icons/icon-256.png">> >>,
              ico |-> << "crates/desktop/icons/icon.ico" >>,
              svg |-> << >>]]

Range(s) == {s[i] : i \in 1..Len(s)}

OutputPaths ==
    UNION {{p[2] : p \in Range(MANAGED_TARGETS[t].png)}
           \cup Range(MANAGED_TARGETS[t].ico)
           \cup Range(MANAGED_TARGETS[t].svg) : t \in DOMAIN MANAGED_TARGETS}

(***************************************************************************)
(* String helpers of the standard library, by what they do on the alphabet *)
(***************************************************************************)
\* str.strip()
Strip(s) == CASE s = " web " -> "web"
              [] OTHER       -> s

\* str.lower()
Lower(s) == CASE s = ".PNG" -> ".png"
              [] s = ".Svg" -> ".svg"
              [] OTHER      -> s

\* sorted() of a set of the names that can occur
LexOrder == <<"bogus", "desktop", "web">>

Sorted(S) == SelectSeq(LexOrder, LAMBDA x : x \in S)

(***************************************************************************)
(* parse_targets                                                           *)
(***************************************************************************)
\* [segment.strip() for segment in value.split(",") if segment.strip()]
RECURSIVE RawTargets(_)
RawTargets(segs) ==
    IF segs = <<>> THEN <<>>
    ELSE IF Strip(Head(segs)) # ""
         THEN <<Strip(Head(segs))>> \o RawTargets(Tail(segs))
         ELSE RawTargets(Tail(segs))

\* lines 80-87 without the seen test: a faulty variant of Dedupe
DedupeKeepingAll(raw, seen) == raw

\* the loop of lines 80-87, keeping the first occurrence of each name
RECURSIVE Dedupe(_, _)
Dedupe(raw, seen) ==
    IF raw = <<>> THEN <<>>
    ELSE IF Head(raw) \in seen
         THEN Dedupe(Tail(raw), seen)
         ELSE <<Head(raw)>> \o Dedupe(Tail(raw), seen \cup {Head(raw)})

\* parse_targets testing only the first name against the registry: a
\* faulty variant of parse_targets
parse_targets_first_only(segs) ==
    LET raw_targets == RawTargets(segs)
        known == DOMAIN MANAGED_TARGETS
        unknown == IF raw_targets = <<>> THEN <<>>
                   ELSE Sorted({Head(raw_targets)} \ known)
    IN  IF raw_targets = <<>>
        THEN [ok |-> FALSE, value |-> <<>>,
              error |-> [kind |-> "no_target", unknown |-> <<>>, supported |-> <<>>]]
        ELSE IF unknown # <<>>
        THEN [ok |-> FALSE, value |-> <<>>,
              error |-> [kind |-> "unknown_targets", unknown |-> unknown,
                         supported |-> Sorted(known)]]
        ELSE [ok |-> TRUE, value |-> Dedupe(raw_targets, {}),
              error |-> [kind |-> "", unknown |-> <<>>, supported |-> <<>>]]

parse_targets(segs) ==
    LET raw_targets == RawTargets(segs)
        known == DOMAIN MANAGED_TARGETS
        unknown == Sorted(Range(raw_targets) \ known)
    IN  IF raw_targets = <<>>
        THEN [ok |-> FALSE, value |-> <<>>,
              error |-> [kind |-> "no_target", unknown |-> <<>>, supported |-> <<>>]]
        ELSE IF unknown # <<>>
        THEN [ok |-> FALSE, value |-> <<>>,
              error |-> [kind |-> "unknown_targets", unknown |-> unknown,
                         supported |-> Sorted(known)]]
        ELSE [ok |-> TRUE, value |-> Dedupe(raw_targets, {}),
              error |-> [kind |-> "", unknown |-> <<>>, supported |-> <<>>]]

\* an error message without target lists in it
Message(text) == [kind |-> text, unknown |-> <<>>, supported |-> <<>>]

(***************************************************************************)
(* Initial state                                                           *)
(***************************************************************************)
NoImage == [w |-> 0, h |-> 0]
OldFile == [kind |-> "old", w |-> 0, h |-> 0, sizes |-> {}]
NoCursor == [t |-> 0, stage |-> "end", k |-> 0]

Init ==
    /\ argTargets \in SeqsUpTo(Segments, MaxSegments)
    /\ argSuffix \in Suffixes
    /\ pc = "parse_args"
    /\ targets = <<>>
    /\ touched = {}
    /\ loader = "none"
    /\ image = NoImage
    /\ convert_bin = "unset"
    /\ tempDir = FALSE
    /\ tempDirsMade = 0
    /\ rendered = "none"
    /\ subprocRuns = 0
    /\ source_is_svg = FALSE
    /\ cursor = NoCursor
    /\ written = <<>>
    /\ writeLog = <<>>
    /\ fs = [p \in OutputPaths |-> OldFile]
    /\ stdout = <<>>
    /\ stderr = <<>>
    /\ outcome = ""
    /\ exitCode = -1

(***************************************************************************)
(* Exceptions and how main() ends                                          *)
(***************************************************************************)
\* an except clause that prints the message and loads the source again: a
\* faulty variant of RaiseValueError
RaiseValueErrorRetrying(msg) ==
    /\ stderr' = IF Len(stderr) < 2 THEN Append(stderr, Message(msg)) ELSE stderr
    /\ UNCHANGED <<outcome, exitCode>>
    /\ pc' = "load_source_image"

\* raise ValueError(msg) anywhere under the try of main: lines 249-251 print
\* the message once and return 1
RaiseValueError(msg) ==
    /\ stderr' = Append(stderr, Message(msg))
    /\ outcome' = "error"
    /\ exitCode' = 1
    /\ pc' = "exit"

\* an exception main does not catch: the interpreter prints a traceback and
\* the process exits with status 1
Uncaught(exc) ==
    /\ stderr' = Append(stderr, Message(exc))
    /\ outcome' = "traceback"
    /\ exitCode' = 1
    /\ pc' = "exit"

\* argparse turns the ArgumentTypeError of a type= callable into
\* parser.error(): usage and message on standard error, exit status 2
ArgparseError(msg) ==
    /\ stderr' = Append(stderr, msg)
    /\ outcome' = "usage"
    /\ exitCode' = 2
    /\ pc' = "exit"

(***************************************************************************)
(* parse_args, resolve_source                                              *)
(***************************************************************************)
ParseArgs ==
    /\ pc = "parse_args"
    /\ LET r == parse_targets(argTargets)
       IN  IF r.ok
           THEN /\ targets' = r.value
                /\ pc' = "resolve_source"
                /\ UNCHANGED <<stderr, outcome, exitCode>>
           ELSE /\ ArgparseError(r.error)
                /\ UNCHANGED targets
    /\ UNCHANGED <<convert_bin, tempDirsMade, argTargets, argSuffix, touched, loader, image, tempDir,
                   rendered, subprocRuns, source_is_svg, cursor, written,
                   writeLog, fs, stdout>>

ResolveSource ==
    /\ pc = "resolve_source"
    /\ touched' = touched \cup {"resolve"}
    /\ pc' = "load_source_image"
    /\ UNCHANGED <<convert_bin, tempDirsMade, argTargets, argSuffix, targets, loader, image, tempDir,
                   rendered, subprocRuns, source_is_svg, cursor, written,
                   writeLog, fs, stdout, stderr, outcome, exitCode>>

(***************************************************************************)
(* load_source_image, load_png_image, load_svg_image                       *)
(***************************************************************************)
\* lines 118-129: existence checks and dispatch on the lower-cased extension
LoadSourceImage ==
    /\ pc = "load_source_image"
    /\ touched' = touched \cup {"stat"}
    /\ \E kind \in {"missing", "directory", "file"} :
         IF kind = "missing"
         THEN RaiseValueError("source file does not exist") /\ UNCHANGED loader
         ELSE IF kind = "directory"
         THEN RaiseValueError("source path is not a file") /\ UNCHANGED loader
         ELSE LET suffix == Lower(argSuffix)
              IN  IF suffix = ".png"
                  THEN /\ loader' = "png"
                       /\ pc' = "load_png_image"
                       /\ UNCHANGED <<stderr, outcome, exitCode>>
                  ELSE IF suffix = ".svg"
                  THEN /\ loader' = "svg"
                       /\ pc' = "load_svg_image"
                       /\ UNCHANGED <<stderr, outcome, exitCode>>
                  ELSE /\ RaiseValueError("source must be a .svg or .png image")
                       /\ UNCHANGED loader
    /\ UNCHANGED <<convert_bin, tempDirsMade, argTargets, argSuffix, targets, image, tempDir, rendered,
                   subprocRuns, source_is_svg, cursor, written, writeLog, fs,
                   stdout>>

\* lines 140-150
LoadPngImage ==
    /\ pc = "load_png_image"
    /\ touched' = touched \cup {"open"}
    /\ \/ /\ RaiseValueError("source is not a readable image")
          /\ UNCHANGED image
       \/ /\ RaiseValueError("cannot read source image")
          /\ UNCHANGED image
       \/ \E format \in {"PNG", "JPEG"}, d \in PngDims :
             IF format # "PNG"
             THEN RaiseValueError("source must be a PNG image") /\ UNCHANGED image
             ELSE /\ image' = [w |-> d[1], h |-> d[2]]
                  /\ pc' = "check_square"
                  /\ UNCHANGED <<stderr, outcome, exitCode>>
    /\ UNCHANGED <<convert_bin, tempDirsMade, argTargets, argSuffix, targets, loader, tempDir, rendered,
                   subprocRuns, source_is_svg, cursor, written, writeLog, fs,
                   stdout>>

\* leaving the with block of line 158 removes the directory and what is in
\* it, however the block is left; returned says whether it is left by return
TemporaryDirectoryKeptOnError(returned) ==
    IF returned THEN tempDir' = FALSE /\ rendered' = "none"
    ELSE UNCHANGED <<tempDir, rendered>>

TemporaryDirectoryExit(returned) ==
    tempDir' = FALSE /\ rendered' = "none"

\* lines 154-158 with the test of line 155 left out: a faulty variant of LoadSvgImage
LoadSvgImageUnchecked ==
    /\ pc = "load_svg_image"
    /\ \E found \in {"none", "/usr/bin/convert"} : convert_bin' = found
    /\ tempDir' = TRUE
    /\ tempDirsMade' = tempDirsMade + 1
    /\ pc' = "run_convert"
    /\ UNCHANGED <<argTargets, argSuffix, targets, touched, loader, image,
                   rendered, subprocRuns, source_is_svg, cursor, written,
                   writeLog, fs, stdout, stderr, outcome, exitCode>>

\* lines 154-158: look the rasterizer up, then enter the with block
LoadSvgImage ==
    /\ pc = "load_svg_image"
    /\ \E found \in {"none", "/usr/bin/convert"} :
         /\ convert_bin' = found
         /\ IF found = "none"
            THEN /\ RaiseValueError("source is SVG but ImageMagick 'convert' is not installed")
                 /\ UNCHANGED <<tempDir, tempDirsMade>>
            ELSE /\ tempDir' = TRUE
                 /\ tempDirsMade' = tempDirsMade + 1
                 /\ pc' = "run_convert"
                 /\ UNCHANGED <<stderr, outcome, exitCode>>
    /\ UNCHANGED <<argTargets, argSuffix, targets, touched, loader, image,
                   rendered, subprocRuns, source_is_svg, cursor, written,
                   writeLog, fs, stdout>>

\* lines 169-174: the blocking subprocess.run(cmd, check=True)
RunConvert ==
    /\ pc = "run_convert"
    /\ subprocRuns' = subprocRuns + 1
    /\ touched' = touched \cup {"open"}
    /\ \/ \E out \in {"png", "garbage", "missing"} :
             /\ rendered' = out
             /\ pc' = "open_rendered"
             /\ UNCHANGED <<tempDir, stderr, outcome, exitCode>>
       \/ /\ RaiseValueError("cannot rasterize SVG source")
          /\ TemporaryDirectoryExit(FALSE)
       \/ /\ Uncaught("OSError")
          /\ TemporaryDirectoryExit(FALSE)
    /\ UNCHANGED <<convert_bin, tempDirsMade, argTargets, argSuffix, targets, loader, image,
                   source_is_svg, cursor, written, writeLog, fs, stdout>>

\* lines 176-187: decode the rendered PNG, then leave the with block
OpenRendered ==
    /\ pc = "open_rendered"
    /\ IF rendered = "png"
       THEN \E d \in RenderedDims :
               /\ image' = [w |-> d[1], h |-> d[2]]
               /\ pc' = "check_square"
               /\ TemporaryDirectoryExit(TRUE)
               /\ UNCHANGED <<stderr, outcome, exitCode>>
       ELSE /\ IF rendered = "garbage"
               THEN RaiseValueError("rendered SVG is not a readable image")
               ELSE RaiseValueError("cannot read rendered SVG image")
            /\ TemporaryDirectoryExit(FALSE)
            /\ UNCHANGED image
    /\ UNCHANGED <<convert_bin, tempDirsMade, argTargets, argSuffix, targets, touched, loader,
                   subprocRuns, source_is_svg, cursor, written, writeLog, fs,
                   stdout>>

\* line 131 comparing the width with itself: a faulty variant of IsSquare
IsSquareSelfCompared(rgba) == rgba.w = rgba.w

\* line 131
IsSquare(rgba) == rgba.w = rgba.h

\* lines 131-137
CheckSquare ==
    /\ pc = "check_square"
    /\ IF ~IsSquare(image)
       THEN RaiseValueError("source image must be square")
       ELSE /\ pc' = "sync_targets"
            /\ UNCHANGED <<stderr, outcome, exitCode>>
    /\ UNCHANGED <<convert_bin, tempDirsMade, argTargets, argSuffix, targets, touched, loader, image,
                   tempDir, rendered, subprocRuns, source_is_svg, cursor,
                   written, writeLog, fs, stdout>>

(***************************************************************************)
(* save_png, save_ico, save_svg: the file each one stores                  *)
(***************************************************************************)
\* source.resize((size, size), RESAMPLE_FILTER).save(format="PNG")
save_png(source, size) ==
    [kind |-> "png", w |-> size, h |-> size, sizes |-> {}]

\* source.save(format="ICO", sizes=[(size, size) for size in ICO_ENTRY_SIZES]):
\* the ICO encoder of the imaging library leaves out every requested size
\* that is larger than the image it is given
save_ico(source) ==
    [kind |-> "ico", w |-> 0, h |-> 0,
     sizes |-> {s \in Range(ICO_ENTRY_SIZES) : s <= source.w /\ s <= source.h}]

\* shutil.copy2(source_path, output_path)
save_svg == [kind |-> "svg", w |-> 0, h |-> 0, sizes |-> {}]

\* what an interrupted write may leave at its path
PartialFile == [kind |-> "partial", w |-> 0, h |-> 0, sizes |-> {}]

(***************************************************************************)
(* sync_targets                                                            *)
(***************************************************************************)
\* line 219, without the lower(): a faulty variant of SourceIsSvg
SourceIsSvgCaseSensitive(suffix) == suffix = ".svg"

\* line 219
SourceIsSvg(suffix) == Lower(suffix) = ".svg"

\* the position the nested loops of lines 220-237 are at, given a position
\* that may be past the end of its inner loop
RECURSIVE Settle(_, _, _)
Settle(ts, isSvg, c) ==
    IF c.t > Len(ts) THEN NoCursor
    ELSE LET config == MANAGED_TARGETS[ts[c.t]]
         IN  CASE c.stage = "png" ->
                    IF c.k <= Len(config.png) THEN c
                    ELSE Settle(ts, isSvg, [t |-> c.t, stage |-> "ico", k |-> 1])
               [] c.stage = "ico" ->
                    IF c.k <= Len(config.ico) THEN c
                    ELSE Settle(ts, isSvg, [t |-> c.t, stage |-> "svg", k |-> 1])
               [] OTHER ->
                    IF isSvg /\ c.k <= Len(config.svg) THEN c
                    ELSE Settle(ts, isSvg, [t |-> c.t + 1, stage |-> "png", k |-> 1])

\* lines 218-220: entering sync_targets
SyncTargetsEnter ==
    /\ pc = "sync_targets"
    /\ written' = <<>>
    /\ source_is_svg' = SourceIsSvg(argSuffix)
    /\ cursor' = Settle(targets, source_is_svg', [t |-> 1, stage |-> "png", k |-> 1])
    /\ pc' = IF cursor'.stage = "end" THEN "report" ELSE "writing"
    /\ UNCHANGED <<convert_bin, tempDirsMade, argTargets, argSuffix, targets, touched, loader, image,
                   tempDir, rendered, subprocRuns, writeLog, fs, stdout,
                   stderr, outcome, exitCode>>

\* a save call that raises and deletes what the run stored before: a
\* faulty variant of WriteFails
WriteFailsRollingBack(path) ==
    /\ fs' = [p \in OutputPaths |-> OldFile]
    /\ Uncaught("OSError")
    /\ UNCHANGED <<written, writeLog, cursor>>

\* a save call that raises (mkdir, encode or copy fails): nothing in
\* sync_targets or main catches it
WriteFails(path) ==
    /\ \E left \in {fs[path], PartialFile} : fs' = [fs EXCEPT ![path] = left]
    /\ Uncaught("OSError")
    /\ UNCHANGED <<written, writeLog, cursor>>

\* a save call that appends its path ahead of the paths already in the
\* list: a faulty variant of WriteDone
WriteDonePrepending(path, file) ==
    /\ fs' = [fs EXCEPT ![path] = file]
    /\ writeLog' = Append(writeLog, path)
    /\ written' = <<path>> \o written
    /\ cursor' = Settle(targets, source_is_svg, [cursor EXCEPT !.k = @ + 1])
    /\ pc' = IF cursor'.stage = "end" THEN "report" ELSE "writing"
    /\ UNCHANGED <<stderr, outcome, exitCode>>

\* a save call that returns, written.append(output_path), and the loops
\* moving on
WriteDone(path, file) ==
    /\ fs' = [fs EXCEPT ![path] = file]
    /\ writeLog' = Append(writeLog, path)
    /\ written' = Append(written, path)
    /\ cursor' = Settle(targets, source_is_svg, [cursor EXCEPT !.k = @ + 1])
    /\ pc' = IF cursor'.stage = "end" THEN "report" ELSE "writing"
    /\ UNCHANGED <<stderr, outcome, exitCode>>

\* lines 223-226
SavePng ==
    /\ pc = "writing"
    /\ cursor.stage = "png"
    /\ LET entry == MANAGED_TARGETS[targets[cursor.t]].png[cursor.k]
       IN  \/ WriteDone(entry[2], save_png(image, entry[1]))
           \/ WriteFails(entry[2])
    /\ UNCHANGED <<convert_bin, tempDirsMade, argTargets, argSuffix, targets, touched, loader, image,
                   tempDir, rendered, subprocRuns, source_is_svg, stdout>>

\* lines 228-231
SaveIco ==
    /\ pc = "writing"
    /\ cursor.stage = "ico"
    /\ LET path == MANAGED_TARGETS[targets[cursor.t]].ico[cursor.k]
       IN  \/ WriteDone(path, save_ico(image))
           \/ WriteFails(path)
    /\ UNCHANGED <<convert_bin, tempDirsMade, argTargets, argSuffix, targets, touched, loader, image,
                   tempDir, rendered, subprocRuns, source_is_svg, stdout>>

\* lines 233-237
SaveSvg ==
    /\ pc = "writing"
    /\ cursor.stage = "svg"
    /\ source_is_svg
    /\ LET path == MANAGED_TARGETS[targets[cursor.t]].svg[cursor.k]
       IN  \/ WriteDone(path, save_svg)
           \/ WriteFails(path)
    /\ UNCHANGED <<convert_bin, tempDirsMade, argTargets, argSuffix, targets, touched, loader, image,
                   tempDir, rendered, subprocRuns, source_is_svg, stdout>>

\* lines 253-254
Report ==
    /\ pc = "report"
    /\ stdout' = Append(stdout, Len(written))
    /\ outcome' = "ok"
    /\ exitCode' = 0
    /\ pc' = "exit"
    /\ UNCHANGED <<convert_bin, tempDirsMade, argTargets, argSuffix, targets, touched, loader, image,
                   tempDir, rendered, subprocRuns, source_is_svg, cursor,
                   written, writeLog, fs, stderr>>

Next ==
    \/ ParseArgs
    \/ ResolveSource
    \/ LoadSourceImage
    \/ LoadPngImage
    \/ LoadSvgImage
    \/ RunConvert
    \/ OpenRendered
    \/ CheckSquare
    \/ SyncTargetsEnter
    \/ SavePng
    \/ SaveIco
    \/ SaveSvg
    \/ Report

Spec == Init /\ [][Next]_vars

(***************************************************************************)
(* Vocabulary of the properties                                            *)
(***************************************************************************)
InitialFs == [p \in OutputPaths |-> OldFile]

NothingWritten == fs = InitialFs /\ writeLog = <<>> /\ written = <<>>

KnownNames == {"web", "desktop"}

\* the names a --targets value holds: its segments, trimmed, the empty ones
\* left out
NamesOf(segs) == {Strip(segs[i]) : i \in 1..Len(segs)} \ {""}

FirstIndex(segs, name) ==
    CHOOSE i \in 1..Len(segs) :
        /\ Strip(segs[i]) = name
        /\ \A j \in 1..(i - 1) : Strip(segs[j]) # name

Count(seq, x) == Cardinality({i \in 1..Len(seq) : seq[i] = x})

PngPathsOf(t) ==
    [i \in 1..Len(MANAGED_TARGETS[t].png) |-> MANAGED_TARGETS[t].png[i][2]]

\* the outputs of one target for a source of the given kind: its PNG paths,
\* then its ICO paths, then (SVG source only) its SVG paths
OutputsOf(t, svgSource) ==
    PngPathsOf(t) \o MANAGED_TARGETS[t].ico
        \o (IF svgSource THEN MANAGED_TARGETS[t].svg ELSE <<>>)

\* every configured path of one target, whatever the source
ConfiguredOf(t) == PngPathsOf(t) \o MANAGED_TARGETS[t].ico \o MANAGED_TARGETS[t].svg

RECURSIVE ExpectedPaths(_, _)
ExpectedPaths(ts, svgSource) ==
    IF ts = <<>> THEN <<>>
    ELSE OutputsOf(Head(ts), svgSource) \o ExpectedPaths(Tail(ts), svgSource)

SvgPaths == UNION {Range(MANAGED_TARGETS[t].svg) : t \in DOMAIN MANAGED_TARGETS}

FilesOfKind(kind) == {p \in OutputPaths : fs[p].kind = kind}

PhaseOf ==
    CASE pc = "parse_args" -> "parsing"
      [] pc \in {"resolve_source", "load_source_image", "load_png_image",
                 "load_svg_image", "run_convert", "open_rendered",
                 "check_square"} -> "loading"
      [] pc \in {"sync_targets", "writing"} -> "writing"
      [] pc = "report" \/ (pc = "exit" /\ outcome = "ok") -> "done"
      [] OTHER -> "failed"

StatementRank(p) ==
    CASE p = "parse_args" -> 0
      [] p = "resolve_source" -> 1
      [] p = "load_source_image" -> 2
      [] p \in {"load_png_image", "load_svg_image"} -> 3
      [] p = "run_convert" -> 4
      [] p = "open_rendered" -> 5
      [] p = "check_square" -> 6
      [] p = "sync_targets" -> 7
      [] p = "writing" -> 8
      [] p = "report" -> 9
      [] OTHER -> 10

(***************************************************************************)
(* C1                                                                      *)
(***************************************************************************)
HasUnknownName == NamesOf(argTargets) \ KnownNames # {}

C2_NonSquareFailsBeforeWriting ==
    (image # NoImage /\ image.w # image.h) =>
        /\ pc \in {"check_square", "exit"}
        /\ NothingWritten
        /\ cursor = NoCursor
        /\ pc = "exit" =>
              /\ exitCode = 1
              /\ outcome = "error"
              /\ stdout = <<>>
              /\ stderr = <<Message("source image must be square")>>

C2_Witness ==
    /\ pc = "exit"
    /\ image = [w |-> 512, h |-> 256]
    /\ targets = <<"web", "desktop">>
    /\ exitCode = 1

(***************************************************************************)
(* C3                                                                      *)
(***************************************************************************)
OnlyKnownNames == NamesOf(argTargets) # {} /\ NamesOf(argTargets) \subseteq KnownNames

ParsedTargetsAreFirstOccurrences ==
    /\ \A i, j \in 1..Len(targets) : i # j => targets[i] # targets[j]
    /\ Range(targets) = NamesOf(argTargets)
    /\ \A i, j \in 1..Len(targets) :
          i < j => FirstIndex(argTargets, targets[i]) < FirstIndex(argTargets, targets[j])

\* C3 as stated: for a --targets value of known names the parsed list holds
\* the distinct names in order of first occurrence, and a successful run has
\* written every path configured for the selected targets exactly once.
C3_EveryConfiguredPathOnce ==
    (OnlyKnownNames /\ pc # "parse_args") =>
        /\ ParsedTargetsAreFirstOccurrences
        /\ outcome = "ok" =>
              \A t \in Range(targets) : \A p \in Range(ConfiguredOf(t)) :
                  Count(writeLog, p) = 1

\* C3 amended: the same, the paths being those configured for the kind of
\* source: the SVG paths are among them only when the source is SVG.  No
\* path is ever written twice, and no other path is written.
C3_EveryOutputPathOnce ==
    (OnlyKnownNames /\ pc # "parse_args") =>
        /\ ParsedTargetsAreFirstOccurrences
        /\ \A p \in OutputPaths : Count(writeLog, p) <= 1
        /\ outcome = "ok" =>
              /\ \A t \in Range(targets) : \A p \in Range(OutputsOf(t, loader = "svg")) :
                    Count(writeLog, p) = 1
              /\ Range(writeLog) =
                    UNION {Range(OutputsOf(t, loader = "svg")) : t \in Range(targets)}

C3_Witness ==
    /\ argTargets = <<"web", "desktop", "web">>
    /\ targets = <<"web", "desktop">>
    /\ outcome = "ok"
    /\ Len(writeLog) = 10

(***************************************************************************)
(* C4                                                                      *)
(***************************************************************************)
\* C4: an SVG copy is written only when the source is SVG.  Unless the
\* loader took the SVG branch no SVG output path is ever written; a
\* successful run from a PNG source with targets [web] has stored exactly 3
\* PNG files, 1 ICO file and no SVG file; a successful run from an SVG
\* source has stored a copy at every SVG path of every selected target; and
\* the decision sync_targets takes agrees with the loader's branch.
C4_SvgCopyOnlyForSvgSource ==
    /\ loader # "svg" =>
          \A p \in SvgPaths : fs[p] = OldFile /\ Count(writeLog, p) = 0
    /\ (outcome = "ok" /\ loader = "png" /\ targets = <<"web">>) =>
          /\ Cardinality(FilesOfKind("png")) = 3
          /\ Cardinality(FilesOfKind("ico")) = 1
          /\ FilesOfKind("svg") = {}
          /\ Len(writeLog) = 4
    /\ (outcome = "ok" /\ loader = "svg") =>
          \A t \in Range(targets) : \A p \in Range(MANAGED_TARGETS[t].svg) :
              fs[p] = save_svg /\ Count(writeLog, p) = 1
    /\ pc \in {"writing", "report"} \/ outcome = "ok" \/ cursor # NoCursor =>
          source_is_svg = (loader = "svg")

C4_Witness ==
    /\ outcome = "ok"
    /\ argSuffix = ".Svg"
    /\ targets = <<"desktop", "web">>
    /\ fs["web/public/favicon.svg"] = save_svg

(***************************************************************************)
(* C5                                                                      *)
(***************************************************************************)
\* C5: the list sync_targets builds is, at every moment, the list of files
\* stored so far in the order they were stored, and a prefix of the targets'
\* outputs taken in selection order (PNG, then ICO, then SVG for an SVG
\* source); on success it is that whole list and the count printed is its
\* length.
C5_WrittenListIsWriteOrder ==
    LET expected == ExpectedPaths(targets, loader = "svg")
    IN  /\ written = writeLog
        /\ Len(written) <= Len(expected)
        /\ written = SubSeq(expected, 1, Len(written))
        /\ pc = "report" => written = expected
        /\ outcome = "ok" => written = expected /\ stdout = <<Len(written)>>

C5_Witness ==
    /\ outcome = "ok"
    /\ targets = <<"desktop", "web">>
    /\ loader = "svg"
    /\ stdout = <<11>>

(***************************************************************************)
(* C6                                                                      *)
(***************************************************************************)
\* C6: when the rasterizer is not found for an SVG source the run has
\* failed: one message saying the tool is not installed, exit code 1, no
\* subprocess started, no temporary directory ever created, no output
\* written or changed.
C6_MissingRasterizerFailsCleanly ==
    convert_bin = "none" =>
        /\ loader = "svg"
        /\ pc = "exit"
        /\ outcome = "error"
        /\ exitCode = 1
        /\ stderr = <<Message("source is SVG but ImageMagick 'convert' is not installed")>>
        /\ stdout = <<>>
        /\ subprocRuns = 0
        /\ tempDirsMade = 0
        /\ ~tempDir
        /\ NothingWritten

C6_Witness ==
    /\ convert_bin = "none"
    /\ argSuffix = ".svg"
    /\ targets = <<"web">>
    /\ pc = "exit"

(***************************************************************************)
(* C7                                                                      *)
(***************************************************************************)
\* C7: whatever the size of the square source, every PNG stored at a
\* configured path is size x size for the size configured for that path,
\* and every ICO stored embeds exactly the seven sizes of ICO_ENTRY_SIZES.
C7_OutputSizes ==
    \A t \in DOMAIN MANAGED_TARGETS :
        /\ \A i \in 1..Len(MANAGED_TARGETS[t].png) :
              LET size == MANAGED_TARGETS[t].png[i][1]
                  path == MANAGED_TARGETS[t].png[i][2]
              IN  fs[path].kind = "png" => fs[path].w = size /\ fs[path].h = size
        /\ \A p \in Range(MANAGED_TARGETS[t].ico) :
              fs[p].kind = "ico" => fs[p].sizes = {16, 24, 32, 48, 64, 128, 256}

(***************************************************************************)
(* C8                                                                      *)
(***************************************************************************)
\* C8: every step of a run moves forward in the order parsing, loading,
\* writing, done: no statement outside the write loop is executed twice, a
\* phase changes only to the next phase or to failure, writing starts only
\* from loading with a decoded square bitmap, files are stored only while
\* writing, and an ended run takes no further step.
C8_LinearPhases ==
    [][ /\ pc # "exit"
        /\ StatementRank(pc') > StatementRank(pc) \/ (pc = "writing" /\ pc' = "writing")
        /\ PhaseOf' # PhaseOf =>
              <<PhaseOf, PhaseOf'>> \in
                  {<<"parsing", "loading">>, <<"loading", "writing">>,
                   <<"writing", "done">>, <<"parsing", "failed">>,
                   <<"loading", "failed">>, <<"writing", "failed">>}
        /\ (PhaseOf' = "writing" /\ PhaseOf # "writing") =>
              image' # NoImage /\ image'.w = image'.h /\ ~tempDir'
        /\ (fs' # fs \/ writeLog' # writeLog) => PhaseOf = "writing"
        /\ subprocRuns' <= 1
      ]_vars

C8_Witness ==
    /\ pc = "exit"
    /\ outcome = "traceback"
    /\ loader = "svg"
    /\ Len(writeLog) = 5

(***************************************************************************)
(* C9                                                                      *)
(***************************************************************************)
FailedWhileWriting == pc = "exit" /\ outcome = "traceback" /\ cursor # NoCursor

\* C9: when storing the k-th output fails, the k-1 outputs stored before it
\* hold their new content, every output after the k-th is as it was before
\* the run, and the run has ended in failure: nothing printed on standard
\* output, a non-zero exit code.
C9_NoRollbackNoContinuation ==
    FailedWhileWriting =>
        LET plan == ExpectedPaths(targets, loader = "svg")
            k == Len(writeLog) + 1
        IN  /\ k <= Len(plan)
            /\ \A i \in 1..(k - 1) :
                  /\ writeLog[i] = plan[i]
                  /\ fs[plan[i]].kind \in {"png", "ico", "svg"}
            /\ \A i \in (k + 1)..Len(plan) : fs[plan[i]] = OldFile
            /\ \A p \in OutputPaths \ Range(plan) : fs[p] = OldFile
            /\ stdout = <<>>
            /\ exitCode # 0
            /\ outcome # "ok"

C9_Witness ==
    /\ FailedWhileWriting
    /\ targets = <<"web", "desktop">>
    /\ Len(writeLog) = 6
    /\ fs["crates/desktop/icons/icon-64.png"] = PartialFile

(***************************************************************************)
(* C10                                                                     *)
(***************************************************************************)
\* C10: the temporary directory and the rendered PNG exist only inside the
\* with block of load_svg_image: in every state outside it (so in every
\* state of the writing phase and in every terminal state) there is none.
C10_TempFilesScoped ==
    pc \notin {"run_convert", "open_rendered"} =>
        ~tempDir /\ rendered = "none"

C10_Witness ==
    /\ pc = "exit"
    /\ tempDirsMade = 1
    /\ subprocRuns = 1
    /\ stderr = <<Message("rendered SVG is not a readable image")>>

====
